---- MODULE Spec2Model ----
(***************************************************************************)
(* TokioBlockedLayer (src/src/layer.rs): a tracing layer that measures the *)
(* busy time of span instances, folds it per callsite and emits warning    *)
(* events when a single outermost poll or the total busy time of a span    *)
(* reaches a configured threshold.                                         *)
(*                                                                         *)
(* Time is counted in clock ticks (one tick = one nanosecond of Instant /  *)
(* Duration).  Option<T> is encoded as a tuple: None = <<>>, Some(x) =     *)
(* <<x>>.  Every handler of the layer is one action, cut only where the    *)
(* code takes one of its two mutexes or reads the clock a second time.     *)
(***************************************************************************)
EXTENDS Integers, Sequences, FiniteSets, Bags, TLC

(***************************************************************************)
(* Bounds of the model.                                                    *)
(***************************************************************************)
\* Largest value of the clock in SpecTrack and SpecLoc.
MaxTime == 3
\* Enter/exit notifications delivered to the one span of SpecTrack / SpecLoc.
MaxEvents == 4
\* Destruction notifications delivered to one span (the second is out of
\* contract).
MaxCloses == 2
\* Spans driven concurrently in Spec.
NumSpans == 2
\* Enter/exit notifications delivered to each span of Spec.
ConcEvents == 2
\* Largest value of the clock in Spec.
ConcTime == 2

(***************************************************************************)
(* Option<T>.                                                              *)
(***************************************************************************)
None == <<>>
Some(x) == <<x>>
IsSome(o) == o # <<>>
Unwrap(o) == o[1]
\* Option::or / Option::or_else
OptOr(a, b) == IF IsSome(a) THEN a ELSE b
\* Option::unwrap_or
UnwrapOr(o, d) == IF IsSome(o) THEN o[1] ELSE d

(***************************************************************************)
(* Callsite metadata (tracing_core::Metadata): name, target, file, line.   *)
(* `id` stands for the address of the static metadata, which is both the   *)
(* callsite Identifier and the CallsiteKey.                                *)
(***************************************************************************)
MetaSpawn ==
    [id |-> "spawn", name |-> "runtime.spawn", target |-> "tokio::task",
     file |-> Some("task.rs"), line |-> Some(10)]
MetaAsyncOp ==
    [id |-> "async_op", name |-> "runtime.resource.async_op",
     target |-> "tokio::time", file |-> None, line |-> None]
MetaAsyncOpPoll ==
    [id |-> "async_op_poll", name |-> "runtime.resource.async_op.poll",
     target |-> "tokio::time", file |-> Some("sleep.rs"), line |-> None]
MetaOther ==
    [id |-> "other", name |-> "runtime.spawn", target |-> "my_app",
     file |-> Some("app.rs"), line |-> Some(20)]
Metas == {MetaSpawn, MetaAsyncOp, MetaAsyncOpPoll, MetaOther}

\* fn matches_tokio_poll(meta)
matches_tokio_poll(meta) ==
    CASE meta.name = "runtime.spawn" /\ meta.target = "tokio::task" -> TRUE
      [] meta.name = "runtime.resource.async_op" -> TRUE
      [] meta.name = "runtime.resource.async_op.poll" -> TRUE
      [] OTHER -> FALSE

\* CallsiteKey::from_meta
CallsiteKey(meta) == meta.id

(***************************************************************************)
(* LocVisitor: the loc.file / loc.line / loc.col fields of the span's      *)
(* attributes.  The values drawn are below 2^32, where `as u32` keeps them.*)
(***************************************************************************)
LocVisitor(file, line, column) == [file |-> file, line |-> line, column |-> column]
NoLoc == LocVisitor(None, None, None)
Locs ==
    { LocVisitor(f, l, c) : f \in {None, Some("user.rs")},
                            l \in {None, Some(7)},
                            c \in {None, Some(5)} }

VARIABLES
    now,                    \* Instant::now()
    warn_busy_single_poll,  \* Option<Duration>
    warn_busy_total,        \* Option<Duration>
    callsites,              \* Mutex<HashMap<CallsiteKey, CallsiteStats>>: the map
    callsites_lock,         \* ... and the thread that holds the mutex
    allowed_callsites,      \* Mutex<HashSet<Identifier>>: the set
    allowed_lock,           \* ... and the thread that holds the mutex
    spans,                  \* the registry: span id -> metadata of the span
    ext,                    \* span id -> SpanBusyExt, for the spans that carry one
    pc,                     \* span id -> where its thread is in the handler it runs
    frame,                  \* span id -> the locals of that handler
    registrar,              \* the thread that calls register_callsite
    reporter,               \* the thread that calls snapshot(), and what it got
    events,                 \* the bag of events emitted with tracing::event!
    host,                   \* what the host delivers: spans, callsites, locs, budget
    obs                     \* history: the notifications each span has been sent

vars ==
    <<now, warn_busy_single_poll, warn_busy_total, callsites, callsites_lock,
      allowed_callsites, allowed_lock, spans, ext, pc, frame, registrar,
      reporter, events, host, obs>>

(***************************************************************************)
(* Threads, as the holders of the two mutexes.                             *)
(***************************************************************************)
Driver(i) == [kind |-> "driver", span |-> i]
Registrar == [kind |-> "register_callsite"]
Reporter == [kind |-> "snapshot"]

NoFrame == [op |-> "none"]

(***************************************************************************)
(* History of the notifications sent to one span: whether the creation     *)
(* attached a SpanBusyExt ("live") or not ("unobserved"), the attributes   *)
(* the creation came with, how many notifications of each kind were        *)
(* delivered, the nesting depth of the enter/exit stream of a live span,   *)
(* the time of the enter that opened its current outermost interval, and   *)
(* the outermost intervals closed so far (by an exit, or by the            *)
(* destruction).  Notifications to a span that is not live are counted and *)
(* nothing else.                                                           *)
(***************************************************************************)
ObsInit ==
    [phase |-> "unborn", attrs |-> NoLoc, enters |-> 0, exits |-> 0,
     closes |-> 0, depth |-> 0, open |-> None, intervals |-> <<>>,
     registered |-> FALSE, matched |-> FALSE]

\* The creation is delivered; `registered` tells whether register_callsite
\* had returned for the callsite of the span by then.
ObserveCreation(o, registered) ==
    IF host.audit THEN [o EXCEPT !.registered = registered] ELSE o

\* register_callsite has returned for callsite id.  The history of the
\* callsite filter is kept in the specifications that audit it.
ObserveRegistered(seen, id) == IF host.audit THEN seen \cup {id} ELSE seen

\* on_new_span returns; `matched` tells whether it has evaluated
\* matches_tokio_poll.
ObserveNew(o, attached, loc, matched) ==
    [o EXCEPT !.phase = IF attached THEN "live" ELSE "unobserved", !.attrs = loc,
              !.matched = host.audit /\ matched]

ObserveEnter(o, t) ==
    IF o.phase # "live" THEN [o EXCEPT !.enters = @ + 1]
    ELSE [o EXCEPT !.enters = @ + 1, !.depth = @ + 1,
                   !.open = IF o.depth = 0 THEN Some(t) ELSE @]

ObserveExit(o, t) ==
    IF o.phase # "live" \/ o.depth = 0 THEN [o EXCEPT !.exits = @ + 1]
    ELSE IF o.depth > 1 THEN [o EXCEPT !.exits = @ + 1, !.depth = @ - 1]
    ELSE [o EXCEPT !.exits = @ + 1, !.depth = 0, !.open = None,
                   !.intervals = Append(@, [from |-> Unwrap(o.open), to |-> t,
                                            by |-> "exit"])]

ObserveClose(o, t) ==
    IF o.phase # "live" THEN [o EXCEPT !.closes = @ + 1]
    ELSE IF o.depth = 0 THEN [o EXCEPT !.closes = @ + 1, !.phase = "closed"]
    ELSE [o EXCEPT !.closes = @ + 1, !.phase = "closed", !.depth = 0,
                   !.open = None,
                   !.intervals = Append(@, [from |-> Unwrap(o.open), to |-> t,
                                            by |-> "close"])]

\* A host that keeps the ordering contract sends enter, exit and one
\* destruction, after the creation and before the destruction of the span.
Deliverable(i) ==
    host.ordered => (obs[i].phase \in {"live", "unobserved"} /\ obs[i].closes = 0)

(***************************************************************************)
(* Instant and Duration.                                                   *)
(***************************************************************************)
\* Instant::saturating_duration_since
saturating_duration_since(end, start) == IF end >= start THEN end - start ELSE 0

\* The clock advances; Instant::now() is monotonic.
Tick ==
    /\ now < host.max_time
    /\ now' = now + 1
    /\ UNCHANGED <<warn_busy_single_poll, warn_busy_total, callsites,
                   callsites_lock, allowed_callsites, allowed_lock, spans, ext,
                   pc, frame, registrar, reporter, events, host, obs>>

(***************************************************************************)
(* SpanBusyExt and the resolution of an event's location.                  *)
(***************************************************************************)
SpanBusyExt(key, loc, t) ==
    [in_count |-> 0, start |-> None, callsite |-> key,
     origin_file |-> loc.file, origin_line |-> loc.line,
     origin_col |-> loc.column, total_busy |-> 0, created_at |-> t]

\* Mutant: the file of the callsite's metadata is not consulted.
ResolveFile_skips_metadata(origin_file, meta) == UnwrapOr(origin_file, "<unknown>")

\* origin_file.as_deref().or_else(|| meta.file()).unwrap_or("<unknown>")
ResolveFile(origin_file, meta) == UnwrapOr(OptOr(origin_file, meta.file), "<unknown>")
\* origin_line.or(meta.line()).unwrap_or(0u32)
ResolveLine(origin_line, meta) == UnwrapOr(OptOr(origin_line, meta.line), 0)
\* origin_col.unwrap_or(0u32)
ResolveCol(origin_col) == UnwrapOr(origin_col, 0)

(***************************************************************************)
(* The two events.  `span` is not a field of the event: it records which   *)
(* span's handler emitted it.                                              *)
(***************************************************************************)
\* f64 division and multiplication by 100.0: x / 0.0 is NaN for x = 0.0 and
\* +inf for x > 0.0; a finite quotient is kept as the percentage, rounded down.
blocked_percent(total_busy, total_span) ==
    IF total_span = 0
    THEN (IF total_busy = 0 THEN <<"NaN">> ELSE <<"inf">>)
    ELSE <<"finite", (total_busy * 100) \div total_span>>

PollBlockedEvent(i, elapsed, e, meta) ==
    [target |-> "tokio_blocked::task_poll_blocked", level |-> "WARN",
     poll_duration_ns |-> elapsed,
     name |-> meta.name, callsite_target |-> meta.target,
     file |-> ResolveFile(e.origin_file, meta),
     line |-> ResolveLine(e.origin_line, meta),
     col |-> ResolveCol(e.origin_col),
     span |-> i]

BlockedTotalEvent(i, f, total_span) ==
    [target |-> "tokio_blocked::task_blocked_total", level |-> "WARN",
     busy_ns |-> f.total_busy,
     duration_ns |-> total_span,
     blocked_percent |-> Some(blocked_percent(f.total_busy, total_span)),
     name |-> f.meta.name, callsite_target |-> f.meta.target,
     file |-> ResolveFile(f.origin_file, f.meta),
     line |-> ResolveLine(f.origin_line, f.meta),
     col |-> ResolveCol(f.origin_col),
     message |-> "tokio task blocked for too long",
     span |-> i]

(***************************************************************************)
(* register_callsite                                                       *)
(***************************************************************************)
\* Entry: a callsite that does not match is not remembered.
register_callsite(meta) ==
    /\ registrar.pc = "idle"
    /\ registrar' = IF matches_tokio_poll(meta)
                    THEN [pc |-> "lock", meta |-> meta, seen |-> registrar.seen]
                    ELSE [registrar EXCEPT !.seen = ObserveRegistered(@, meta.id)]
    /\ UNCHANGED <<now, warn_busy_single_poll, warn_busy_total, callsites,
                   callsites_lock, allowed_callsites, allowed_lock, spans, ext,
                   pc, frame, reporter, events, host, obs>>

\* self.allowed_callsites.lock().unwrap()
register_callsite_lock ==
    /\ registrar.pc = "lock"
    /\ allowed_lock = None
    /\ allowed_lock' = Some(Registrar)
    /\ registrar' = [registrar EXCEPT !.pc = "insert"]
    /\ UNCHANGED <<now, warn_busy_single_poll, warn_busy_total, callsites,
                   callsites_lock, allowed_callsites, spans, ext, pc, frame,
                   reporter, events, host, obs>>

\* .insert(meta.callsite()); the guard is dropped at the end of the statement.
register_callsite_insert ==
    /\ registrar.pc = "insert"
    /\ allowed_callsites' = allowed_callsites \cup {registrar.meta.id}
    /\ allowed_lock' = None
    /\ registrar' = [pc |-> "idle",
                     seen |-> ObserveRegistered(registrar.seen, registrar.meta.id)]
    /\ UNCHANGED <<now, warn_busy_single_poll, warn_busy_total, callsites,
                   callsites_lock, spans, ext, pc, frame, reporter, events,
                   host, obs>>

(***************************************************************************)
(* on_new_span                                                             *)
(***************************************************************************)
\* The host has stored the span (cx.span(id) finds it) and delivers the
\* creation with the span's metadata and attributes.
on_new_span(i, meta, loc) ==
    /\ pc[i] = "idle"
    /\ i \notin DOMAIN spans
    /\ spans' = [j \in DOMAIN spans \cup {i} |-> IF j = i THEN meta ELSE spans[j]]
    /\ pc' = [pc EXCEPT ![i] = "new_lock"]
    /\ frame' = [frame EXCEPT ![i] = [op |-> "on_new_span", meta |-> meta, loc |-> loc]]
    /\ obs' = [obs EXCEPT ![i] = ObserveCreation(@, meta.id \in registrar.seen)]
    /\ UNCHANGED <<now, warn_busy_single_poll, warn_busy_total, callsites,
                   callsites_lock, allowed_callsites, allowed_lock, ext,
                   registrar, reporter, events, host>>

\* self.allowed_callsites.lock().unwrap()
on_new_span_lock(i) ==
    /\ pc[i] = "new_lock"
    /\ allowed_lock = None
    /\ allowed_lock' = Some(Driver(i))
    /\ pc' = [pc EXCEPT ![i] = "new_contains"]
    /\ UNCHANGED <<now, warn_busy_single_poll, warn_busy_total, callsites,
                   callsites_lock, allowed_callsites, spans, ext, frame,
                   registrar, reporter, events, host, obs>>

\* Mutant: only the cache decides.
is_allowed_cache_only(allowed, meta) == meta.id \in allowed

\* { allowed.contains(&meta.callsite()) } || matches_tokio_poll(meta)
is_allowed(allowed, meta) == meta.id \in allowed \/ matches_tokio_poll(meta)

\* Mutant: both operands are evaluated (| instead of ||).
evaluates_matches_tokio_poll_eagerly(allowed, meta) == TRUE

\* The right operand of || is evaluated only when the left one is false.
evaluates_matches_tokio_poll(allowed, meta) == meta.id \notin allowed

\* The block ends (the guard is dropped); a span that is allowed gets its
\* SpanBusyExt, created at Instant::now().
on_new_span_insert(i) ==
    /\ pc[i] = "new_contains"
    /\ allowed_lock' = None
    /\ ext' = IF is_allowed(allowed_callsites, frame[i].meta)
              THEN [j \in DOMAIN ext \cup {i} |->
                      IF j = i
                      THEN SpanBusyExt(CallsiteKey(frame[i].meta), frame[i].loc, now)
                      ELSE ext[j]]
              ELSE ext
    /\ pc' = [pc EXCEPT ![i] = "idle"]
    /\ frame' = [frame EXCEPT ![i] = NoFrame]
    /\ obs' = [obs EXCEPT ![i] =
                 ObserveNew(@, is_allowed(allowed_callsites, frame[i].meta), frame[i].loc,
                            evaluates_matches_tokio_poll(allowed_callsites, frame[i].meta))]
    /\ UNCHANGED <<now, warn_busy_single_poll, warn_busy_total, callsites,
                   callsites_lock, allowed_callsites, spans, registrar,
                   reporter, events, host>>

(***************************************************************************)
(* on_enter                                                                *)
(***************************************************************************)
\* Mutant: every enter restarts the clock of the interval.
enter_ext_restarts(e, t) == [e EXCEPT !.start = Some(t), !.in_count = @ + 1]

\* if ext.in_count == 0 { ext.start = Some(Instant::now()); } ext.in_count += 1;
enter_ext(e, t) ==
    [e EXCEPT !.start = IF e.in_count = 0 THEN Some(t) ELSE @,
              !.in_count = @ + 1]

on_enter(i) ==
    /\ pc[i] = "idle"
    /\ Deliverable(i)
    /\ obs[i].enters + obs[i].exits < host.events
    /\ obs' = [obs EXCEPT ![i] = ObserveEnter(@, now)]
    /\ ext' = IF i \in DOMAIN spans /\ i \in DOMAIN ext
              THEN [ext EXCEPT ![i] = enter_ext(@, now)]
              ELSE ext
    /\ UNCHANGED <<now, warn_busy_single_poll, warn_busy_total, callsites,
                   callsites_lock, allowed_callsites, allowed_lock, spans, pc,
                   frame, registrar, reporter, events, host>>

(***************************************************************************)
(* on_exit                                                                 *)
(***************************************************************************)
\* Mutant: the threshold is compared with > instead of >=.
exit_ext_strict(i, e, t, meta, threshold) ==
    IF e.in_count = 0 THEN [ext |-> e, emitted |-> EmptyBag]
    ELSE LET e1 == [e EXCEPT !.in_count = @ - 1] IN
         IF e1.in_count # 0 \/ e1.start = None THEN [ext |-> e1, emitted |-> EmptyBag]
         ELSE LET elapsed == saturating_duration_since(t, Unwrap(e1.start))
                  e2 == [e1 EXCEPT !.start = None, !.total_busy = @ + elapsed]
              IN  IF IsSome(threshold) /\ elapsed > Unwrap(threshold)
                  THEN [ext |-> e2,
                        emitted |-> SetToBag({PollBlockedEvent(i, elapsed, e2, meta)})]
                  ELSE [ext |-> e2, emitted |-> EmptyBag]

\* Mutant: no early return when in_count is already 0.
exit_ext_unguarded(i, e, t, meta, threshold) ==
    LET e1 == [e EXCEPT !.in_count = @ - 1] IN
    IF e1.in_count # 0 \/ e1.start = None THEN [ext |-> e1, emitted |-> EmptyBag]
    ELSE LET elapsed == saturating_duration_since(t, Unwrap(e1.start))
             e2 == [e1 EXCEPT !.start = None, !.total_busy = @ + elapsed]
         IN  IF IsSome(threshold) /\ elapsed >= Unwrap(threshold)
             THEN [ext |-> e2,
                   emitted |-> SetToBag({PollBlockedEvent(i, elapsed, e2, meta)})]
             ELSE [ext |-> e2, emitted |-> EmptyBag]

\* Mutant: the start is read and left in place instead of taken.
exit_ext_keeps_start(i, e, t, meta, threshold) ==
    IF e.in_count = 0 THEN [ext |-> e, emitted |-> EmptyBag]
    ELSE LET e1 == [e EXCEPT !.in_count = @ - 1] IN
         IF e1.in_count # 0 \/ e1.start = None THEN [ext |-> e1, emitted |-> EmptyBag]
         ELSE LET elapsed == saturating_duration_since(t, Unwrap(e1.start))
                  e2 == [e1 EXCEPT !.total_busy = @ + elapsed]
              IN  IF IsSome(threshold) /\ elapsed >= Unwrap(threshold)
                  THEN [ext |-> e2,
                        emitted |-> SetToBag({PollBlockedEvent(i, elapsed, e2, meta)})]
                  ELSE [ext |-> e2, emitted |-> EmptyBag]

\* What on_exit does to the SpanBusyExt, and the events it emits.
exit_ext(i, e, t, meta, threshold) ==
    IF e.in_count = 0 THEN [ext |-> e, emitted |-> EmptyBag]
    ELSE LET e1 == [e EXCEPT !.in_count = @ - 1] IN
         IF e1.in_count # 0 THEN [ext |-> e1, emitted |-> EmptyBag]
         ELSE IF e1.start = None THEN [ext |-> e1, emitted |-> EmptyBag]
         ELSE LET start == Unwrap(e1.start)
                  elapsed == saturating_duration_since(t, start)
                  e2 == [e1 EXCEPT !.start = None, !.total_busy = @ + elapsed]
              IN  IF threshold = None THEN [ext |-> e2, emitted |-> EmptyBag]
                  ELSE IF elapsed >= Unwrap(threshold)
                  THEN [ext |-> e2,
                        emitted |-> SetToBag({PollBlockedEvent(i, elapsed, e2, meta)})]
                  ELSE [ext |-> e2, emitted |-> EmptyBag]

on_exit(i) ==
    /\ pc[i] = "idle"
    /\ Deliverable(i)
    /\ obs[i].enters + obs[i].exits < host.events
    /\ obs' = [obs EXCEPT ![i] = ObserveExit(@, now)]
    /\ IF i \in DOMAIN spans /\ i \in DOMAIN ext
       THEN LET r == exit_ext(i, ext[i], now, spans[i], warn_busy_single_poll) IN
            /\ ext' = [ext EXCEPT ![i] = r.ext]
            /\ events' = events (+) r.emitted
       ELSE UNCHANGED <<ext, events>>
    /\ UNCHANGED <<now, warn_busy_single_poll, warn_busy_total, callsites,
                   callsites_lock, allowed_callsites, allowed_lock, spans, pc,
                   frame, registrar, reporter, host>>

(***************************************************************************)
(* on_close                                                                *)
(***************************************************************************)
\* Mutant: the interval still open at the destruction is dropped.
close_ext_drops_open(e, t) == [e EXCEPT !.start = None, !.in_count = 0]

\* Finish any in-progress busy interval.
close_ext(e, t) ==
    IF e.in_count > 0 /\ IsSome(e.start)
    THEN [e EXCEPT !.start = None,
                   !.total_busy = @ + saturating_duration_since(t, Unwrap(e.start)),
                   !.in_count = 0]
    ELSE e

\* The locals of on_close once the SpanBusyExt has been removed and finished.
close_frame(e, meta) ==
    [op |-> "on_close", meta |-> meta, callsite_key |-> e.callsite,
     total_busy |-> e.total_busy, origin_file |-> e.origin_file,
     origin_line |-> e.origin_line, origin_col |-> e.origin_col,
     created_at |-> e.created_at]

\* Mutant: a span of the registry that carries no SpanBusyExt is folded as
\* one with no busy time instead of being left alone.
on_close_folds_untracked(i) ==
    /\ pc[i] = "idle"
    /\ Deliverable(i)
    /\ obs[i].closes < host.closes
    /\ obs' = [obs EXCEPT ![i] = ObserveClose(@, now)]
    /\ IF i \in DOMAIN spans
       THEN /\ ext' = [j \in DOMAIN ext \ {i} |-> ext[j]]
            /\ frame' = [frame EXCEPT ![i] =
                    close_frame(IF i \in DOMAIN ext
                                THEN close_ext(ext[i], now)
                                ELSE SpanBusyExt(CallsiteKey(spans[i]), NoLoc, now),
                                spans[i])]
            /\ pc' = [pc EXCEPT ![i] = "close_lock"]
       ELSE UNCHANGED <<ext, frame, pc>>
    /\ UNCHANGED <<now, warn_busy_single_poll, warn_busy_total, callsites,
                   callsites_lock, allowed_callsites, allowed_lock, spans,
                   registrar, reporter, events, host>>

\* Mutant: the SpanBusyExt is read in place (get_mut) instead of removed.
on_close_keeps_ext(i) ==
    /\ pc[i] = "idle"
    /\ Deliverable(i)
    /\ obs[i].closes < host.closes
    /\ obs' = [obs EXCEPT ![i] = ObserveClose(@, now)]
    /\ IF i \in DOMAIN spans /\ i \in DOMAIN ext
       THEN /\ ext' = [ext EXCEPT ![i] = close_ext(ext[i], now)]
            /\ frame' = [frame EXCEPT ![i] = close_frame(close_ext(ext[i], now), spans[i])]
            /\ pc' = [pc EXCEPT ![i] = "close_lock"]
       ELSE UNCHANGED <<ext, frame, pc>>
    /\ UNCHANGED <<now, warn_busy_single_poll, warn_busy_total, callsites,
                   callsites_lock, allowed_callsites, allowed_lock, spans,
                   registrar, reporter, events, host>>

\* extensions.remove::<SpanBusyExt>(): a span without one is left alone.
on_close(i) ==
    /\ pc[i] = "idle"
    /\ Deliverable(i)
    /\ obs[i].closes < host.closes
    /\ obs' = [obs EXCEPT ![i] = ObserveClose(@, now)]
    /\ IF i \in DOMAIN spans /\ i \in DOMAIN ext
       THEN /\ ext' = [j \in DOMAIN ext \ {i} |-> ext[j]]
            /\ frame' = [frame EXCEPT ![i] = close_frame(close_ext(ext[i], now), spans[i])]
            /\ pc' = [pc EXCEPT ![i] = "close_lock"]
       ELSE UNCHANGED <<ext, frame, pc>>
    /\ UNCHANGED <<now, warn_busy_single_poll, warn_busy_total, callsites,
                   callsites_lock, allowed_callsites, allowed_lock, spans,
                   registrar, reporter, events, host>>

\* Mutant: the threshold is compared with > instead of >=.
close_events_strict(i, f, threshold, t) ==
    IF IsSome(threshold) /\ f.total_busy > Unwrap(threshold)
    THEN SetToBag({BlockedTotalEvent(i, f, saturating_duration_since(t, f.created_at))})
    ELSE EmptyBag

\* Mutant: the total is compared with the threshold of a single poll.
close_events_single_threshold(i, f, threshold, t) ==
    IF IsSome(warn_busy_single_poll) /\ f.total_busy >= Unwrap(warn_busy_single_poll)
    THEN SetToBag({BlockedTotalEvent(i, f, saturating_duration_since(t, f.created_at))})
    ELSE EmptyBag

\* Mutant: the lifetime is measured the wrong way round
\* (created_at.saturating_duration_since(now)).
close_events_lifetime_reversed(i, f, threshold, t) ==
    IF IsSome(threshold) /\ f.total_busy >= Unwrap(threshold)
    THEN SetToBag({BlockedTotalEvent(i, f, saturating_duration_since(f.created_at, t))})
    ELSE EmptyBag

\* The events on_close emits once the totals are folded.
close_events(i, f, threshold, t) ==
    IF threshold = None THEN EmptyBag
    ELSE IF f.total_busy >= Unwrap(threshold)
    THEN SetToBag({BlockedTotalEvent(i, f, saturating_duration_since(t, f.created_at))})
    ELSE EmptyBag

\* Mutant: the total is compared with the threshold before the fold, when
\* the callsites mutex is taken.
on_close_lock_checks_first(i) ==
    /\ pc[i] = "close_lock"
    /\ callsites_lock = None
    /\ callsites_lock' = Some(Driver(i))
    /\ events' = events (+) close_events(i, frame[i], warn_busy_total, now)
    /\ pc' = [pc EXCEPT ![i] = "close_fold"]
    /\ UNCHANGED <<now, warn_busy_single_poll, warn_busy_total, callsites,
                   allowed_callsites, allowed_lock, spans, ext, frame,
                   registrar, reporter, host, obs>>

\* self.callsites.lock().unwrap()
on_close_lock(i) ==
    /\ pc[i] = "close_lock"
    /\ callsites_lock = None
    /\ callsites_lock' = Some(Driver(i))
    /\ pc' = [pc EXCEPT ![i] = "close_fold"]
    /\ UNCHANGED <<now, warn_busy_single_poll, warn_busy_total, callsites,
                   allowed_callsites, allowed_lock, spans, ext, frame,
                   registrar, reporter, events, host, obs>>

\* CallsiteStats { name, target, file, line, ..Default::default() }
CallsiteStats(meta) ==
    [name |-> meta.name, target |-> meta.target, file |-> meta.file,
     line |-> meta.line, total_busy |-> 0, count |-> 0]

\* Mutant: the busy time is stored instead of added.
fold_overwrites(map, key, meta, total_busy) ==
    LET stats == IF key \in DOMAIN map THEN map[key] ELSE CallsiteStats(meta) IN
    [k \in DOMAIN map \cup {key} |->
        IF k = key
        THEN [stats EXCEPT !.total_busy = total_busy, !.count = @ + 1]
        ELSE map[k]]

\* map.entry(callsite_key).or_insert_with(..); stats.total_busy += total_busy;
\* stats.count += 1;
fold(map, key, meta, total_busy) ==
    LET stats == IF key \in DOMAIN map THEN map[key] ELSE CallsiteStats(meta) IN
    [k \in DOMAIN map \cup {key} |->
        IF k = key
        THEN [stats EXCEPT !.total_busy = @ + total_busy, !.count = @ + 1]
        ELSE map[k]]

\* Mutant: the guard of the callsites mutex outlives the block of the fold.
on_close_fold_keeps_guard(i) ==
    /\ pc[i] = "close_fold"
    /\ callsites' = fold(callsites, frame[i].callsite_key, frame[i].meta,
                         frame[i].total_busy)
    /\ pc' = [pc EXCEPT ![i] = "close_check"]
    /\ UNCHANGED <<now, warn_busy_single_poll, warn_busy_total, callsites_lock,
                   allowed_callsites, allowed_lock, spans, ext, frame,
                   registrar, reporter, events, host, obs>>

\* Update per-callsite totals once per span instance; the guard is dropped at
\* the end of the block.
on_close_fold(i) ==
    /\ pc[i] = "close_fold"
    /\ callsites' = fold(callsites, frame[i].callsite_key, frame[i].meta,
                         frame[i].total_busy)
    /\ callsites_lock' = None
    /\ pc' = [pc EXCEPT ![i] = "close_check"]
    /\ UNCHANGED <<now, warn_busy_single_poll, warn_busy_total,
                   allowed_callsites, allowed_lock, spans, ext, frame,
                   registrar, reporter, events, host, obs>>

on_close_check(i) ==
    /\ pc[i] = "close_check"
    /\ events' = events (+) close_events(i, frame[i], warn_busy_total, now)
    /\ pc' = [pc EXCEPT ![i] = "idle"]
    /\ frame' = [frame EXCEPT ![i] = NoFrame]
    /\ UNCHANGED <<now, warn_busy_single_poll, warn_busy_total, callsites,
                   callsites_lock, allowed_callsites, allowed_lock, spans, ext,
                   registrar, reporter, host, obs>>

(***************************************************************************)
(* snapshot                                                                *)
(***************************************************************************)
CallsiteStatsSnapshot(s) ==
    [name |-> s.name, target |-> s.target, file |-> s.file, line |-> s.line,
     total_busy |-> s.total_busy, count |-> s.count]

snapshot ==
    /\ reporter.pc = "idle"
    /\ reporter' = [reporter EXCEPT !.pc = "lock"]
    /\ UNCHANGED <<now, warn_busy_single_poll, warn_busy_total, callsites,
                   callsites_lock, allowed_callsites, allowed_lock, spans, ext,
                   pc, frame, registrar, events, host, obs>>

\* self.callsites.lock().unwrap()
snapshot_lock ==
    /\ reporter.pc = "lock"
    /\ callsites_lock = None
    /\ callsites_lock' = Some(Reporter)
    /\ reporter' = [reporter EXCEPT !.pc = "collect"]
    /\ UNCHANGED <<now, warn_busy_single_poll, warn_busy_total, callsites,
                   allowed_callsites, allowed_lock, spans, ext, pc, frame,
                   registrar, events, host, obs>>

\* Mutant: callsites without busy time are left out of the Vec.
snapshot_collect_skips_zero ==
    /\ reporter.pc = "collect"
    /\ reporter' = [pc |-> "idle",
                    result |-> {CallsiteStatsSnapshot(callsites[k]) :
                                   k \in {x \in DOMAIN callsites : callsites[x].total_busy > 0}}]
    /\ callsites_lock' = None
    /\ UNCHANGED <<now, warn_busy_single_poll, warn_busy_total, callsites,
                   allowed_callsites, allowed_lock, spans, ext, pc, frame,
                   registrar, events, host, obs>>

\* Mutant: the guard of the callsites mutex is not dropped on return.
snapshot_collect_keeps_guard ==
    /\ reporter.pc = "collect"
    /\ reporter' = [pc |-> "idle",
                    result |-> {CallsiteStatsSnapshot(callsites[k]) : k \in DOMAIN callsites}]
    /\ UNCHANGED <<now, warn_busy_single_poll, warn_busy_total, callsites,
                   callsites_lock, allowed_callsites, allowed_lock, spans, ext,
                   pc, frame, registrar, events, host, obs>>

\* map.values().map(..).collect(); the guard is dropped on return.  The
\* callsites of the model differ in name or target, so the Vec is kept as the
\* set of its elements (the order of a HashMap's values is unspecified).
snapshot_collect ==
    /\ reporter.pc = "collect"
    /\ reporter' = [pc |-> "idle",
                    result |-> {CallsiteStatsSnapshot(callsites[k]) : k \in DOMAIN callsites}]
    /\ callsites_lock' = None
    /\ UNCHANGED <<now, warn_busy_single_poll, warn_busy_total, callsites,
                   allowed_callsites, allowed_lock, spans, ext, pc, frame,
                   registrar, events, host, obs>>

(***************************************************************************)
(* The state after TokioBlockedLayer::new() and the two builder calls      *)
(* with_warn_busy_single_poll / with_warn_busy_total, and what the host    *)
(* will deliver.                                                           *)
(***************************************************************************)
\* Thresholds the builders are called with.
SingleLimit == 1
TotalLimit == 2

new(h, single_polls, totals) ==
    /\ now = 0
    /\ warn_busy_single_poll \in single_polls
    /\ warn_busy_total \in totals
    /\ callsites = <<>>
    /\ callsites_lock = None
    /\ allowed_callsites = {}
    /\ allowed_lock = None
    /\ spans = <<>>
    /\ ext = <<>>
    /\ pc = [i \in h.spans |-> "idle"]
    /\ frame = [i \in h.spans |-> NoFrame]
    /\ registrar = [pc |-> "idle", seen |-> {}]
    /\ reporter = [pc |-> "idle", result |-> {}]
    /\ events = EmptyBag
    /\ host = h
    /\ obs = [i \in h.spans |-> ObsInit]

(***************************************************************************)
(* Spec: NumSpans spans driven concurrently, with registrations and        *)
(* snapshots going on.                                                     *)
(***************************************************************************)
Init ==
    new([spans |-> 1 .. NumSpans, metas |-> {MetaSpawn, MetaOther},
         locs |-> {NoLoc}, events |-> ConcEvents, closes |-> 1, ordered |-> TRUE,
         max_time |-> ConcTime, audit |-> FALSE],
        {Some(SingleLimit)}, {Some(TotalLimit)})

Next ==
    \/ Tick
    \/ \E meta \in host.metas : register_callsite(meta)
    \/ register_callsite_lock
    \/ register_callsite_insert
    \/ \E i \in host.spans, meta \in host.metas, loc \in host.locs :
          on_new_span(i, meta, loc)
    \/ \E i \in host.spans : on_new_span_lock(i)
    \/ \E i \in host.spans : on_new_span_insert(i)
    \/ \E i \in host.spans : on_enter(i)
    \/ \E i \in host.spans : on_exit(i)
    \/ \E i \in host.spans : on_close(i)
    \/ \E i \in host.spans : on_close_lock(i)
    \/ \E i \in host.spans : on_close_fold(i)
    \/ \E i \in host.spans : on_close_check(i)
    \/ snapshot
    \/ snapshot_lock
    \/ snapshot_collect

Spec == Init /\ [][Next]_vars

(***************************************************************************)
(* SpecTrack: one span of a tracked callsite, with every combination of    *)
(* the two thresholds, MaxEvents enter/exit notifications in any order and *)
(* MaxCloses destructions.                                                 *)
(***************************************************************************)
InitTrack ==
    new([spans |-> {1}, metas |-> {MetaSpawn, MetaOther}, locs |-> {NoLoc},
         events |-> MaxEvents, closes |-> MaxCloses, ordered |-> FALSE,
         max_time |-> MaxTime, audit |-> FALSE],
        {None, Some(SingleLimit)}, {None, Some(0), Some(TotalLimit)})

NextTrack ==
    \/ Tick
    \/ \E i \in host.spans, meta \in host.metas, loc \in host.locs :
          on_new_span(i, meta, loc)
    \/ \E i \in host.spans : on_new_span_lock(i)
    \/ \E i \in host.spans : on_new_span_insert(i)
    \/ \E i \in host.spans : on_enter(i)
    \/ \E i \in host.spans : on_exit(i)
    \/ \E i \in host.spans : on_close(i)
    \/ \E i \in host.spans : on_close_lock(i)
    \/ \E i \in host.spans : on_close_fold(i)
    \/ \E i \in host.spans : on_close_check(i)

SpecTrack == InitTrack /\ [][NextTrack]_vars

(***************************************************************************)
(* SpecLoc: one span of any callsite with any combination of the loc.*     *)
(* attributes; both thresholds are zero, so that every outermost interval  *)
(* and every destruction of a tracked span emits its event.                *)
(***************************************************************************)
InitLoc ==
    new([spans |-> {1}, metas |-> Metas, locs |-> Locs, events |-> 2,
         closes |-> 1, ordered |-> TRUE, max_time |-> MaxTime, audit |-> FALSE],
        {Some(0)}, {Some(0)})

SpecLoc == InitLoc /\ [][NextTrack]_vars

(***************************************************************************)
(* SpecSnap: NumSpans spans of two tracked callsites destroyed             *)
(* concurrently while snapshot() is called again and again.                *)
(***************************************************************************)
InitSnap ==
    new([spans |-> 1 .. NumSpans, metas |-> {MetaSpawn, MetaAsyncOp},
         locs |-> {NoLoc}, events |-> ConcEvents, closes |-> 1, ordered |-> TRUE,
         max_time |-> ConcTime, audit |-> FALSE],
        {Some(SingleLimit)}, {Some(TotalLimit)})

NextSnap ==
    \/ Tick
    \/ \E i \in host.spans, meta \in host.metas, loc \in host.locs :
          on_new_span(i, meta, loc)
    \/ \E i \in host.spans : on_new_span_lock(i)
    \/ \E i \in host.spans : on_new_span_insert(i)
    \/ \E i \in host.spans : on_enter(i)
    \/ \E i \in host.spans : on_exit(i)
    \/ \E i \in host.spans : on_close(i)
    \/ \E i \in host.spans : on_close_lock(i)
    \/ \E i \in host.spans : on_close_fold(i)
    \/ \E i \in host.spans : on_close_check(i)
    \/ snapshot
    \/ snapshot_lock
    \/ snapshot_collect

SpecSnap == InitSnap /\ [][NextSnap]_vars

(***************************************************************************)
(* SpecFilter: NumSpans spans of an allowed and of a rejected callsite,     *)
(* created before, during or after the registration of their callsite;     *)
(* the history of the callsite filter is recorded.  Both thresholds are    *)
(* zero, so that every outermost interval and every destruction of a       *)
(* tracked span emits its event.                                           *)
(***************************************************************************)
InitFilter ==
    new([spans |-> 1 .. NumSpans, metas |-> {MetaSpawn, MetaOther}, locs |-> {NoLoc},
         events |-> 2, closes |-> 1, ordered |-> TRUE, max_time |-> 1, audit |-> TRUE],
        {Some(0)}, {Some(0)})

NextFilter ==
    \/ Tick
    \/ \E meta \in host.metas : register_callsite(meta)
    \/ register_callsite_lock
    \/ register_callsite_insert
    \/ \E i \in host.spans, meta \in host.metas, loc \in host.locs :
          on_new_span(i, meta, loc)
    \/ \E i \in host.spans : on_new_span_lock(i)
    \/ \E i \in host.spans : on_new_span_insert(i)
    \/ \E i \in host.spans : on_enter(i)
    \/ \E i \in host.spans : on_exit(i)
    \/ \E i \in host.spans : on_close(i)
    \/ \E i \in host.spans : on_close_lock(i)
    \/ \E i \in host.spans : on_close_fold(i)
    \/ \E i \in host.spans : on_close_check(i)

SpecFilter == InitFilter /\ [][NextFilter]_vars

(***************************************************************************)
(* SpecCreate: one span of any of the four callsites, with registrations   *)
(* of any of them before, during or after its creation.                    *)
(***************************************************************************)
InitCreate ==
    new([spans |-> {1}, metas |-> Metas, locs |-> {NoLoc}, events |-> 2,
         closes |-> 1, ordered |-> TRUE, max_time |-> 1, audit |-> TRUE],
        {Some(0)}, {Some(0)})

SpecCreate == InitCreate /\ [][NextFilter]_vars

(***************************************************************************)
(* SpecStore: every operation of the layer, with NumSpans spans that may   *)
(* be destroyed MaxCloses times and whose notifications come in any order. *)
(***************************************************************************)
InitStore ==
    new([spans |-> 1 .. NumSpans, metas |-> {MetaSpawn, MetaOther}, locs |-> {NoLoc},
         events |-> 1, closes |-> MaxCloses, ordered |-> FALSE, max_time |-> 1,
         audit |-> FALSE],
        {Some(SingleLimit)}, {Some(0)})

SpecStore == InitStore /\ [][Next]_vars

(***************************************************************************)
(* SpecLive: NumSpans spans driven concurrently with registrations and     *)
(* snapshots, under fair scheduling.  The host decides when it delivers a  *)
(* notification or calls snapshot(); a handler that has started keeps      *)
(* running (weak fairness of the steps that wait for nothing), and a       *)
(* thread that waits for a mutex which is released again and again gets    *)
(* it (strong fairness of lock()).                                         *)
(***************************************************************************)
InitLive ==
    new([spans |-> 1 .. NumSpans, metas |-> {MetaSpawn, MetaOther}, locs |-> {NoLoc},
         events |-> 1, closes |-> 1, ordered |-> TRUE, max_time |-> 1,
         audit |-> FALSE],
        {Some(SingleLimit)}, {Some(0)})

Fairness ==
    /\ SF_vars(register_callsite_lock)
    /\ WF_vars(register_callsite_insert)
    /\ SF_vars(snapshot_lock)
    /\ WF_vars(snapshot_collect)
    /\ \A i \in 1 .. NumSpans :
          /\ SF_vars(on_new_span_lock(i))
          /\ WF_vars(on_new_span_insert(i))
          /\ SF_vars(on_close_lock(i))
          /\ WF_vars(on_close_fold(i))
          /\ WF_vars(on_close_check(i))

SpecLive == InitLive /\ [][Next]_vars /\ Fairness

(***************************************************************************)
(* What the claims are stated with.                                        *)
(***************************************************************************)
PollTarget == "tokio_blocked::task_poll_blocked"
TotalTarget == "tokio_blocked::task_blocked_total"

Elapsed(iv) == iv.to - iv.from

\* The sum of the lengths of a sequence of intervals.
RECURSIVE SumIntervals(_)
SumIntervals(ivs) ==
    IF ivs = <<>> THEN 0 ELSE Elapsed(Head(ivs)) + SumIntervals(Tail(ivs))

\* How many events of the set S the bag `events` holds.
RECURSIVE CopiesOf(_)
CopiesOf(S) ==
    IF S = {} THEN 0
    ELSE LET e == CHOOSE x \in S : TRUE IN CopiesIn(e, events) + CopiesOf(S \ {e})

PollEvents(i) == {e \in BagToSet(events) : e.target = PollTarget /\ e.span = i}
TotalEvents(i) == {e \in BagToSet(events) : e.target = TotalTarget /\ e.span = i}

\* The outermost intervals of span i that an exit closed with elapsed time d.
ExitIntervals(i, d) ==
    {k \in 1 .. Len(obs[i].intervals) :
        obs[i].intervals[k].by = "exit" /\ Elapsed(obs[i].intervals[k]) = d}

\* The destruction of span i has been delivered and its handler has returned.
Destroyed(i) == obs[i].phase = "closed" /\ pc[i] = "idle"

(***************************************************************************)
(* C1: the busy duration accumulated by a tracked span is the sum of its   *)
(* outermost intervals (exit that returns the depth to 0 minus the enter   *)
(* that raised it from 0); nested enters and exits add nothing, and while  *)
(* an outermost interval is open its start is the time of the enter that   *)
(* opened it.                                                              *)
(***************************************************************************)
C1_BusyIsSumOfOutermostIntervals ==
    \A i \in DOMAIN ext :
        /\ ext[i].total_busy = SumIntervals(obs[i].intervals)
        /\ ext[i].start = obs[i].open

\* One outermost interval of MaxTime ticks with a nested pair inside has been
\* measured, and the stream is balanced.
C1_Witness ==
    \E i \in DOMAIN ext :
        /\ obs[i].enters = 2 /\ obs[i].exits = 2 /\ obs[i].depth = 0
        /\ Len(obs[i].intervals) = 1
        /\ Elapsed(obs[i].intervals[1]) = MaxTime
        /\ ext[i].total_busy = MaxTime

(***************************************************************************)
(* C2: with warn_busy_single_poll = Some(D), the Poll-Blocked events of a  *)
(* span are, one for one, its outermost intervals closed by an exit with   *)
(* elapsed >= D: for every duration d there are as many events carrying d  *)
(* as such intervals of length d when d >= D, and none when d < D.         *)
(***************************************************************************)
C2_OnePollBlockedPerLongInterval ==
    IsSome(warn_busy_single_poll) =>
        \A i \in host.spans :
            /\ \A d \in 0 .. host.max_time :
                 CopiesOf({e \in PollEvents(i) : e.poll_duration_ns = d}) =
                    IF d >= Unwrap(warn_busy_single_poll)
                    THEN Cardinality(ExitIntervals(i, d))
                    ELSE 0
            /\ \A e \in PollEvents(i) : e.poll_duration_ns \in 0 .. host.max_time

\* One interval shorter than D and one of exactly D have been closed by an
\* exit: one event.
C2_Witness ==
    \E i \in host.spans :
        /\ warn_busy_single_poll = Some(SingleLimit)
        /\ ExitIntervals(i, SingleLimit) # {}
        /\ ExitIntervals(i, SingleLimit - 1) # {}
        /\ CopiesOf(PollEvents(i)) = 1

(***************************************************************************)
(* C3: with warn_busy_total = Some(D), a span has one Task-Blocked-Total   *)
(* event once its destruction has been handled if its busy duration at the *)
(* destruction is >= D, and none otherwise: none before the destruction is *)
(* handled, whatever it has accumulated, and none if the total is < D.     *)
(***************************************************************************)
C3_OneBlockedTotalAtDestruction ==
    IsSome(warn_busy_total) =>
        \A i \in host.spans :
            CopiesOf(TotalEvents(i)) =
                IF Destroyed(i) /\ SumIntervals(obs[i].intervals) >= Unwrap(warn_busy_total)
                THEN 1 ELSE 0

\* A destroyed span whose busy duration is exactly D, reached while it was
\* alive, with its one event.
C3_Witness ==
    \E i \in host.spans :
        /\ warn_busy_total = Some(TotalLimit)
        /\ Destroyed(i)
        /\ obs[i].closes = 2
        /\ ExitIntervals(i, TotalLimit) # {}
        /\ SumIntervals(obs[i].intervals) = TotalLimit
        /\ CopiesOf(TotalEvents(i)) = 1

(***************************************************************************)
(* C4: the Aggregation Store entry of a callsite counts the tracked spans  *)
(* of that callsite whose destruction has folded them, and its total busy  *)
(* is the sum of their final busy durations, however the handlers of the   *)
(* spans, the registrations and the snapshots interleave.                  *)
(***************************************************************************)
\* The spans of callsite `key` that on_close has folded.
Folded(key) ==
    {i \in host.spans : /\ obs[i].phase = "closed"
                        /\ pc[i] \in {"close_check", "idle"}
                        /\ spans[i].id = key}

RECURSIVE SumBusy(_)
SumBusy(S) ==
    IF S = {} THEN 0
    ELSE LET i == CHOOSE x \in S : TRUE IN
         SumIntervals(obs[i].intervals) + SumBusy(S \ {i})

C4_StoreCountsAndSumsFolds ==
    \A m \in host.metas :
        /\ Folded(m.id) # {} => m.id \in DOMAIN callsites
        /\ m.id \in DOMAIN callsites =>
              /\ callsites[m.id].count = Cardinality(Folded(m.id))
              /\ callsites[m.id].total_busy = SumBusy(Folded(m.id))

\* Two spans of one callsite with busy durations 1 and 2, destroyed by two
\* handlers that run at the same time, are both folded.
C4_Witness ==
    /\ \A i \in 1 .. 2 : pc[i] = "close_check" /\ spans[i] = MetaSpawn
    /\ SumIntervals(obs[1].intervals) = 1
    /\ SumIntervals(obs[2].intervals) = 2
    /\ callsites[MetaSpawn.id].count = 2
    /\ callsites[MetaSpawn.id].total_busy = 3

(***************************************************************************)
(* C5: when a span is destroyed with an outermost interval still open (at  *)
(* any depth), the time from the start of that interval to the destruction *)
(* is added to its busy duration before the fold: it is part of what       *)
(* on_close holds as the total, of what is folded into the store, and of   *)
(* what is compared with warn_busy_total.                                  *)
(***************************************************************************)
ClosedWhileActive(i) ==
    /\ obs[i].phase = "closed"
    /\ obs[i].intervals # <<>>
    /\ obs[i].intervals[Len(obs[i].intervals)].by = "close"

C5_OpenIntervalClosedAtDestruction ==
    \A i \in host.spans :
        ClosedWhileActive(i) =>
            LET busy == SumIntervals(obs[i].intervals) IN
            /\ pc[i] # "idle" => frame[i].total_busy = busy
            /\ pc[i] \in {"close_check", "idle"} =>
                  callsites[spans[i].id].total_busy = busy
            /\ (pc[i] = "idle" /\ IsSome(warn_busy_total)) =>
                  (CopiesOf(TotalEvents(i)) = 1 <=> busy >= Unwrap(warn_busy_total))

\* A span destroyed at depth 2, one tick after an interval of one tick that
\* an exit had closed: the open interval lifts the total to the threshold.
C5_Witness ==
    \E i \in host.spans :
        /\ ClosedWhileActive(i) /\ pc[i] = "idle"
        /\ obs[i].enters = 3 /\ obs[i].exits = 1
        /\ Len(obs[i].intervals) = 2
        /\ Elapsed(obs[i].intervals[1]) = TotalLimit - 1
        /\ Elapsed(obs[i].intervals[2]) = 1
        /\ warn_busy_total = Some(TotalLimit)
        /\ callsites[spans[i].id].total_busy = TotalLimit
        /\ CopiesOf(TotalEvents(i)) = 1

(***************************************************************************)
(* C6: an exit delivered to a tracked span whose in_count is 0 changes     *)
(* nothing: no SpanBusyExt, no event, no entry of the store.               *)
(***************************************************************************)
ExitDelivered(i) == obs'[i].exits = obs[i].exits + 1
EnterDelivered(i) == obs'[i].enters = obs[i].enters + 1
CloseDelivered(i) == obs'[i].closes = obs[i].closes + 1

C6_ExitAtDepthZeroIgnored ==
    [][\A i \in host.spans :
          (ExitDelivered(i) /\ i \in DOMAIN ext /\ ext[i].in_count = 0) =>
              /\ ext' = ext
              /\ events' = events
              /\ callsites' = callsites
              /\ pc' = pc]_vars

\* Of two exits one found in_count at 0 and was ignored; the enter/exit pair
\* of the same span was measured in full.
C6_Witness ==
    \E i \in DOMAIN ext :
        /\ obs[i].exits = 2 /\ obs[i].enters = 1
        /\ ext[i].in_count = 0 /\ ext[i].start = None
        /\ ext[i].total_busy = 2
        /\ obs[i].intervals = <<[from |-> 1, to |-> 3, by |-> "exit"]>>

(***************************************************************************)
(* C7: a destruction delivered to a span without a SpanBusyExt (never      *)
(* created, created untracked, or already destroyed) and an enter or exit  *)
(* delivered after the destruction change neither the store nor any        *)
(* SpanBusyExt, emit no event, and the handler returns at once.            *)
(***************************************************************************)
C7_OutOfContractIgnored ==
    [][\A i \in host.spans :
          (\/ CloseDelivered(i) /\ i \notin DOMAIN ext
           \/ (EnterDelivered(i) \/ ExitDelivered(i)) /\ obs[i].phase = "closed") =>
              /\ ext' = ext
              /\ events' = events
              /\ callsites' = callsites
              /\ pc' = pc /\ pc[i] = "idle"
              /\ frame' = frame
              /\ callsites_lock' = callsites_lock]_vars

\* A tracked span was destroyed; a second destruction and an enter followed.
C7_Witness ==
    \E i \in host.spans :
        /\ Destroyed(i)
        /\ obs[i].closes = 2 /\ obs[i].enters = 1 /\ obs[i].exits = 0
        /\ obs[i].intervals = <<>>
        /\ i \notin DOMAIN ext
        /\ callsites[spans[i].id].count = 1

(***************************************************************************)
(* C8: a threshold that is None is disabled, and each kind of event is     *)
(* decided by its own threshold alone: with warn_busy_single_poll = None   *)
(* there is no Poll-Blocked event and with warn_busy_total = None no       *)
(* Task-Blocked-Total event, whatever the other threshold is; and the      *)
(* number of events of a kind is a function of the span's notifications    *)
(* and of that kind's threshold, in which the other does not occur.        *)
(***************************************************************************)
\* Poll-Blocked events due for history o under the single-poll threshold.
PollEventsDue(o, single_poll) ==
    IF single_poll = None THEN 0
    ELSE Cardinality({k \in 1 .. Len(o.intervals) :
                        /\ o.intervals[k].by = "exit"
                        /\ Elapsed(o.intervals[k]) >= Unwrap(single_poll)})

\* Task-Blocked-Total events due for history o, once the destruction has
\* been handled, under the total threshold.
TotalEventsDue(o, total) ==
    IF total = None \/ o.phase # "closed" THEN 0
    ELSE IF SumIntervals(o.intervals) >= Unwrap(total) THEN 1 ELSE 0

C8_ThresholdsIndependent ==
    /\ warn_busy_single_poll = None =>
          \A e \in BagToSet(events) : e.target # PollTarget
    /\ warn_busy_total = None =>
          \A e \in BagToSet(events) : e.target # TotalTarget
    /\ \A i \in host.spans :
          /\ CopiesOf(PollEvents(i)) = PollEventsDue(obs[i], warn_busy_single_poll)
          /\ pc[i] = "idle" =>
                CopiesOf(TotalEvents(i)) = TotalEventsDue(obs[i], warn_busy_total)

\* The single-poll threshold is set and was reached, the span's total is
\* above it too, the total threshold is None: one Poll-Blocked event, no
\* Task-Blocked-Total event after the destruction.
C8_Witness ==
    \E i \in host.spans :
        /\ warn_busy_single_poll = Some(SingleLimit)
        /\ warn_busy_total = None
        /\ Destroyed(i)
        /\ SumIntervals(obs[i].intervals) > SingleLimit
        /\ CopiesOf(PollEvents(i)) = 1
        /\ CopiesOf(TotalEvents(i)) = 0

(***************************************************************************)
(* C9: a Task-Blocked-Total event of a span whose lifetime is zero carries *)
(* no blocked_percent field.  (The code always records the field: for a    *)
(* zero lifetime it is busy / 0.0 * 100.0, NaN or infinite.)               *)
(***************************************************************************)
C9_NoPercentForZeroLifetime ==
    \A e \in BagToSet(events) :
        (e.target = TotalTarget /\ e.duration_ns = 0) => e.blocked_percent = None

(***************************************************************************)
(* C10: in every event the location is resolved field by field: file is    *)
(* the loc.file attribute of the span if it has one, else the file of the  *)
(* callsite's metadata, else "<unknown>"; line is loc.line, else the line   *)
(* of the metadata, else 0; col is loc.col, else 0.                        *)
(***************************************************************************)
\* The location an event of span i is due, with `placeholder` for a file
\* that neither the attributes nor the metadata give.
LocationDue(i, placeholder) ==
    LET a == obs[i].attrs
        m == spans[i]
    IN  [file |-> IF a.file # None THEN a.file[1]
                  ELSE IF m.file # None THEN m.file[1] ELSE placeholder,
         line |-> IF a.line # None THEN a.line[1]
                  ELSE IF m.line # None THEN m.line[1] ELSE 0,
         col  |-> IF a.column # None THEN a.column[1] ELSE 0]

LocationOf(e) == [file |-> e.file, line |-> e.line, col |-> e.col]

C10_LocationResolvedPerField ==
    \A e \in BagToSet(events) : LocationOf(e) = LocationDue(e.span, "<unknown>")

\* C10 as stated: the placeholder is "unknown".
C10_AsStated ==
    \A e \in BagToSet(events) : LocationOf(e) = LocationDue(e.span, "unknown")

\* A span that came with loc.line only has emitted both events: the file is
\* the metadata's, the line the attribute's, the column 0.
C10_Witness ==
    \E i \in DOMAIN spans :
        /\ spans[i] = MetaSpawn
        /\ obs[i].attrs = LocVisitor(None, Some(7), None)
        /\ PollEvents(i) # {} /\ TotalEvents(i) # {}
        /\ \A e \in PollEvents(i) \cup TotalEvents(i) :
              LocationOf(e) = [file |-> "task.rs", line |-> 7, col |-> 0]

(***************************************************************************)
(* C11: each of the two mutexes is held only across one read or one        *)
(* mutation of its map: a thread holds the callsites mutex exactly while   *)
(* it is at the fold of on_close or at the copy of snapshot(), and the     *)
(* allowed_callsites mutex exactly while it is at the lookup of            *)
(* on_new_span or at the insert of register_callsite.  So the step that    *)
(* emits an event is taken by a thread that holds neither mutex, before    *)
(* and after the step, and the caller that has a snapshot in hand holds    *)
(* neither.                                                                *)
(***************************************************************************)
Holds(lock, thread) == lock = Some(thread)

LocksHeldOnlyAcrossMapAccess ==
    /\ \A i \in host.spans :
          /\ Holds(callsites_lock, Driver(i)) <=> pc[i] = "close_fold"
          /\ Holds(allowed_lock, Driver(i)) <=> pc[i] = "new_contains"
    /\ Holds(callsites_lock, Reporter) <=> reporter.pc = "collect"
    /\ ~Holds(allowed_lock, Reporter)
    /\ Holds(allowed_lock, Registrar) <=> registrar.pc = "insert"
    /\ ~Holds(callsites_lock, Registrar)

\* The spans whose handler emits an event in this step.
Emitters == {e.span : e \in {x \in BagToSet(events') : CopiesIn(x, events') > CopiesIn(x, events)}}

C11_NoLockAcrossEmissionOrConsumption ==
    /\ []LocksHeldOnlyAcrossMapAccess
    /\ [][\A i \in Emitters :
             /\ ~Holds(callsites_lock, Driver(i)) /\ ~Holds(allowed_lock, Driver(i))
             /\ ~Holds(callsites_lock', Driver(i)) /\ ~Holds(allowed_lock', Driver(i))]_vars

\* on_close of a span is about to emit its Task-Blocked-Total event while the
\* reporter, with an earlier snapshot in hand, waits for the callsites mutex
\* that the on_close of the other span holds.
C11_Witness ==
    \E i, j \in host.spans :
        /\ pc[i] = "close_check"
        /\ frame[i].total_busy >= Unwrap(warn_busy_total)
        /\ pc[j] = "close_fold" /\ Holds(callsites_lock, Driver(j))
        /\ reporter.pc = "lock" /\ reporter.result # {}

(***************************************************************************)
(* C12: the result of snapshot() is the whole store as it is at the one    *)
(* instant of the copy: it has one element for each callsite of which a    *)
(* span has been folded by then, with the number and the summed busy time  *)
(* of exactly the spans whose fold is complete at that instant (a span     *)
(* whose on_close is still before its fold contributes nothing, to no      *)
(* element), and no later step, folds included, changes a result that has  *)
(* been returned.                                                          *)
(***************************************************************************)
\* The spans whose fold is complete.
AllFolded == UNION {Folded(m.id) : m \in host.metas}

\* What a copy of the store holds when exactly the spans in F are folded.
ContentsAfter(F) ==
    {[name |-> m.name, target |-> m.target, file |-> m.file, line |-> m.line,
      total_busy |-> SumBusy({i \in F : spans[i].id = m.id}),
      count |-> Cardinality({i \in F : spans[i].id = m.id})] :
        m \in {x \in host.metas : \E i \in F : spans[i].id = x.id}}

SnapshotReturns == reporter.pc = "collect" /\ reporter'.pc = "idle"

C12_SnapshotIsStoreAtOneInstant ==
    [][IF SnapshotReturns
       THEN reporter'.result = ContentsAfter(AllFolded)
       ELSE reporter'.result = reporter.result]_vars

\* A snapshot taken after the fold of one span and before the fold of the
\* other, of another callsite, which has been folded since: the result in
\* hand still has the one element.
C12_Witness ==
    /\ reporter.pc = "idle"
    /\ Cardinality(reporter.result) = 1
    /\ \E r \in reporter.result : r.count = 1 /\ r.total_busy = ConcTime
    /\ Cardinality(DOMAIN callsites) = 2
    /\ AllFolded = host.spans

(***************************************************************************)
(* C13: the destruction of a span that is Active has the outcome of an     *)
(* exit that returns the depth to 0, delivered at the time of the          *)
(* destruction, and then the destruction of the Idle span: the same busy   *)
(* total folded into the store, the same Task-Blocked-Total event, and     *)
(* the same Poll-Blocked events, so one Poll-Blocked event for the         *)
(* interval the destruction closes when its elapsed time is >=             *)
(* warn_busy_single_poll.                                                  *)
(***************************************************************************)
\* The history in which the interval the destruction closed was closed by an
\* exit delivered at that time.
AsExplicitExit(o) ==
    [o EXCEPT !.intervals = [k \in 1 .. Len(o.intervals) |->
                                [o.intervals[k] EXCEPT !.by = "exit"]]]

C13_DestructionIsImplicitFinalExit ==
    \A i \in host.spans :
        Destroyed(i) /\ ClosedWhileActive(i) =>
            LET o == AsExplicitExit(obs[i]) IN
            /\ callsites[spans[i].id].count = 1
            /\ callsites[spans[i].id].total_busy = SumIntervals(o.intervals)
            /\ CopiesOf(TotalEvents(i)) = TotalEventsDue(o, warn_busy_total)
            /\ CopiesOf(PollEvents(i)) = PollEventsDue(o, warn_busy_single_poll)

(***************************************************************************)
(* C14: on_new_span attaches a SpanBusyExt to a span if and only if the    *)
(* (name, target) of its callsite matches one of the fixed patterns,       *)
(* whether register_callsite had been delivered for that callsite or not,  *)
(* and the SpanBusyExt it attaches is fresh: depth 0, no start, zero busy  *)
(* time.  A span of a callsite that does not match stays unobserved: the   *)
(* steps of its enter, exit and destruction leave the store, the events    *)
(* and the attached states as they are, and no event is ever about it.     *)
(***************************************************************************)
Created(i) == i \in DOMAIN spans /\ obs[i].phase # "unborn"

AttachedIffMatches ==
    \A i \in host.spans :
        Created(i) =>
            /\ obs[i].phase \in {"live", "closed"} <=> matches_tokio_poll(spans[i])
            /\ obs[i].phase = "live" <=> i \in DOMAIN ext
            /\ obs[i].phase = "unobserved" =>
                  /\ PollEvents(i) = {} /\ TotalEvents(i) = {}
                  /\ spans[i].id \notin DOMAIN callsites

\* Span i takes a step of one of its handlers.
HandlerStep(i) == pc'[i] # pc[i] \/ obs'[i] # obs[i]

C14_TrackedIffPatternMatches ==
    /\ []AttachedIffMatches
    /\ [][\A i \in host.spans :
             /\ i \notin DOMAIN ext /\ i \in DOMAIN ext' =>
                   /\ ext'[i].in_count = 0
                   /\ ext'[i].start = None
                   /\ ext'[i].total_busy = 0
             /\ obs[i].phase = "unobserved" /\ HandlerStep(i) =>
                   /\ callsites' = callsites
                   /\ events' = events
                   /\ ext' = ext]_vars

\* A span of the callsite with a matching name and another target, created
\* after the registration of its callsite and of a matching one, has had its
\* enter, exit and destruction delivered over one tick.
C14_Witness ==
    \E i \in host.spans :
        /\ Created(i) /\ spans[i] = MetaOther
        /\ obs[i].registered /\ MetaSpawn.id \in allowed_callsites
        /\ obs[i].enters = 1 /\ obs[i].exits = 1 /\ obs[i].closes = 1
        /\ pc[i] = "idle" /\ now = 1

(***************************************************************************)
(* C15: after any sequence of notifications, in contract or not, every     *)
(* attached SpanBusyExt has in_count >= 0 and has a start exactly when     *)
(* its in_count is >= 1.                                                   *)
(***************************************************************************)
C15_StartPresentIffDepthPositive ==
    \A i \in DOMAIN ext :
        /\ ext[i].in_count >= 0
        /\ IsSome(ext[i].start) <=> ext[i].in_count >= 1

\* An interval closed by an exit, then two enters at a later time: depth 2,
\* with the start of the second interval.
C15_Witness ==
    \E i \in DOMAIN ext :
        /\ ext[i].in_count = 2
        /\ IsSome(ext[i].start)
        /\ Len(obs[i].intervals) = 1
        /\ Unwrap(ext[i].start) > obs[i].intervals[1].to
        /\ obs[i].enters = 3 /\ obs[i].exits = 1

(***************************************************************************)
(* C16: the store changes only in the fold of the destruction of a tracked *)
(* span: every other step (of register_callsite, on_new_span, on_enter,    *)
(* on_exit, snapshot, and of a destruction that finds no SpanBusyExt)      *)
(* leaves it as it is.  A fold adds one to the count of one entry and      *)
(* takes nothing away: no entry is removed and no count or total           *)
(* decreases.  Each tracked span is folded once, however often its         *)
(* destruction is delivered, and a callsite has an entry exactly when a    *)
(* tracked span of it has been folded.                                     *)
(***************************************************************************)
EntriesAreFoldedSpans ==
    \A m \in host.metas :
        /\ m.id \in DOMAIN callsites <=> Folded(m.id) # {}
        /\ m.id \in DOMAIN callsites =>
              callsites[m.id].count = Cardinality(Folded(m.id))

\* The step is the fold of the destruction of tracked span i.
FoldStep(i) ==
    /\ pc[i] = "close_fold" /\ pc'[i] = "close_check"
    /\ obs[i].phase = "closed"
    /\ matches_tokio_poll(spans[i])

StoreGrowsByOneFold ==
    callsites' # callsites =>
        /\ \E i \in host.spans :
              /\ FoldStep(i)
              /\ callsites'[spans[i].id].count =
                    (IF spans[i].id \in DOMAIN callsites
                     THEN callsites[spans[i].id].count ELSE 0) + 1
              /\ \A k \in DOMAIN callsites' \ {spans[i].id} :
                    k \in DOMAIN callsites /\ callsites'[k] = callsites[k]
        /\ DOMAIN callsites \subseteq DOMAIN callsites'
        /\ \A k \in DOMAIN callsites :
              /\ callsites'[k].count >= callsites[k].count
              /\ callsites'[k].total_busy >= callsites[k].total_busy

C16_StoreChangesOnlyByFold ==
    /\ []EntriesAreFoldedSpans
    /\ [][StoreGrowsByOneFold]_vars

\* Two tracked spans of one callsite, each destroyed twice, the first while
\* Active: the entry counts two, after registrations and a snapshot between
\* the folds.
C16_Witness ==
    /\ \A i \in host.spans : obs[i].closes = MaxCloses /\ Destroyed(i)
    /\ ClosedWhileActive(1)
    /\ callsites[MetaSpawn.id].count = NumSpans
    /\ callsites[MetaSpawn.id].total_busy >= 1
    /\ MetaSpawn.id \in allowed_callsites
    /\ \E r \in reporter.result : r.count = 1

(***************************************************************************)
(* C17: the comparison of a span's total with warn_busy_total happens once *)
(* and after the span's fold: a span has at most one Task-Blocked-Total    *)
(* event, and in the state in which on_close emits it the SpanBusyExt is   *)
(* already removed from the span and the store entry of its callsite       *)
(* already counts the span and includes its busy time; the emission        *)
(* itself leaves the store as it is.                                       *)
(***************************************************************************)
\* The step adds a Task-Blocked-Total event of span i.
TotalEmitted(i) ==
    \E e \in BagToSet(events') :
        /\ e.target = TotalTarget /\ e.span = i
        /\ CopiesIn(e, events') > CopiesIn(e, events)

AtMostOneTotalEvent == \A i \in host.spans : CopiesOf(TotalEvents(i)) <= 1

C17_TotalCheckOnceAfterFold ==
    /\ []AtMostOneTotalEvent
    /\ [][\A i \in host.spans :
             TotalEmitted(i) =>
                /\ i \notin DOMAIN ext
                /\ TotalEvents(i) = {}
                /\ spans[i].id \in DOMAIN callsites
                /\ i \in Folded(spans[i].id)
                /\ callsites[spans[i].id].count = Cardinality(Folded(spans[i].id))
                /\ callsites[spans[i].id].total_busy = SumBusy(Folded(spans[i].id))
                /\ callsites' = callsites]_vars

\* on_close of span 1 is about to emit its event for a busy time of one
\* tick; the entry counts both spans, the fold of span 2 having come first,
\* and the destruction of span 2 has been delivered again since.
C17_Witness ==
    /\ pc[1] = "close_check"
    /\ frame[1].total_busy = 1
    /\ 1 \notin DOMAIN ext
    /\ Destroyed(2) /\ obs[2].closes = MaxCloses
    /\ CopiesOf(TotalEvents(2)) = 1
    /\ callsites[MetaSpawn.id].count = NumSpans
    /\ callsites[MetaSpawn.id].total_busy >= 1

(***************************************************************************)
(* C18, as stated: once register_callsite has returned for a callsite,     *)
(* every later creation of a span of that callsite, whether the callsite   *)
(* was allowed or rejected, is decided without evaluating                  *)
(* matches_tokio_poll again.                                               *)
(***************************************************************************)
C18_AsStated ==
    \A i \in host.spans :
        Created(i) /\ obs[i].registered => ~obs[i].matched

(***************************************************************************)
(* C18, amended: the cache holds the allowed verdicts only.  It is at any  *)
(* time the set of the matching callsites for which register_callsite has  *)
(* returned, and it never loses an entry.  A creation delivered after the  *)
(* registration of its allowed callsite is decided from the cache without  *)
(* evaluating matches_tokio_poll; a creation for a rejected callsite,      *)
(* registered or not, evaluates matches_tokio_poll every time.             *)
(***************************************************************************)
CacheHoldsAllowedVerdicts ==
    /\ allowed_callsites =
          {m.id : m \in {x \in host.metas : x.id \in registrar.seen /\ matches_tokio_poll(x)}}
    /\ \A i \in host.spans :
          Created(i) =>
              /\ obs[i].registered /\ matches_tokio_poll(spans[i]) => ~obs[i].matched
              /\ ~matches_tokio_poll(spans[i]) => obs[i].matched

C18_AllowedVerdictsCached ==
    /\ []CacheHoldsAllowedVerdicts
    /\ [][allowed_callsites \subseteq allowed_callsites']_vars

\* Both callsites are registered, then a span of each is created: the span
\* of the allowed callsite is decided from the cache, the span of the
\* rejected one by the pattern match.
C18_Witness ==
    /\ registrar.seen = {MetaSpawn.id, MetaOther.id}
    /\ \A i \in host.spans : Created(i) /\ obs[i].registered
    /\ spans[1] = MetaSpawn /\ ~obs[1].matched /\ obs[1].phase = "live"
    /\ spans[2] = MetaOther /\ obs[2].matched /\ obs[2].phase = "unobserved"

(***************************************************************************)
(* C19: the clock never goes back, so in every Task-Blocked-Total event    *)
(* the busy time is at most the lifetime of the span (from its creation to *)
(* the threshold check of its destruction) and a percentage that is a      *)
(* number is at most 100, also when the destruction closed the last        *)
(* interval.                                                               *)
(***************************************************************************)
C19_BusyAtMostLifetime ==
    \A e \in BagToSet(events) :
        e.target = TotalTarget =>
            /\ e.busy_ns <= e.duration_ns
            /\ e.blocked_percent # Some(<<"inf">>)
            /\ \A n \in 101 .. 100 * MaxTime : e.blocked_percent # Some(<<"finite", n>>)

\* A span entered at the time of its creation and destroyed MaxTime ticks
\* later without an exit: busy for all of its lifetime, 100 percent.
C19_Witness ==
    \E i \in host.spans :
        /\ ClosedWhileActive(i)
        /\ \E e \in TotalEvents(i) :
              /\ e.busy_ns = MaxTime /\ e.duration_ns = MaxTime
              /\ e.blocked_percent = Some(<<"finite", 100>>)

(***************************************************************************)
(* C20: with the spans driven concurrently (the notifications of one span  *)
(* one after the other) and register_callsite and snapshot() called at any *)
(* time, no thread waits for one of the two mutexes while it holds the     *)
(* other, in no reachable state are all the started handlers and calls     *)
(* blocked, and under fair scheduling every notification handler and every *)
(* call of snapshot() that has started returns.                            *)
(***************************************************************************)
\* The mutexes a thread holds and the mutex it waits for.
HoldsCallsites(t) == Holds(callsites_lock, t)
HoldsAllowed(t) == Holds(allowed_lock, t)

NoHoldAndWait ==
    /\ \A i \in host.spans :
          /\ pc[i] = "close_lock" => ~HoldsAllowed(Driver(i))
          /\ pc[i] = "new_lock" => ~HoldsCallsites(Driver(i))
          /\ ~(HoldsCallsites(Driver(i)) /\ HoldsAllowed(Driver(i)))
    /\ registrar.pc = "lock" => ~HoldsCallsites(Registrar)
    /\ reporter.pc = "lock" => ~HoldsAllowed(Reporter)

\* A step inside a handler or inside snapshot().
InternalStep ==
    \/ register_callsite_lock
    \/ register_callsite_insert
    \/ snapshot_lock
    \/ snapshot_collect
    \/ \E i \in host.spans :
          \/ on_new_span_lock(i)
          \/ on_new_span_insert(i)
          \/ on_close_lock(i)
          \/ on_close_fold(i)
          \/ on_close_check(i)

Started ==
    \/ \E i \in host.spans : pc[i] # "idle"
    \/ registrar.pc # "idle"
    \/ reporter.pc # "idle"

NoDeadlock == Started => ENABLED InternalStep

====
